---- MODULE Spec2Model ----
(***************************************************************************)
(* OpenHantek6022 (ISDS-205B fork): the model specification table of       *)
(* modelISDS205b.cpp and the startup / main loop / shutdown sequence of    *)
(* main.cpp, with the three threads main() starts.                         *)
(***************************************************************************)
EXTENDS Integers, Sequences, FiniteSets, TLC

\* ------------------------------------------------------------------ bounds
\* samplesAvailable notifications the acquisition thread emits in one run
MaxCycles == 2
\* emissions of each fatal signal (communicationError, deviceDisconnected)
MaxEmit == 1

\* ------------------------------------------------------- program constants
\* Dso::ControlSpecification( 2 ): the channel count of the model
Channels == 2
\* qMax( waitForDso, 10000U )
MinWaitForDso == 10000
\* postProcessingThread.wait( 10000 )
PostProcessingWait == 10000
\* the early "return -1" of main()
ErrorReturn == -1

Max(a, b) == IF a >= b THEN a ELSE b

\* ---------------------------------------------- modelISDS205b.cpp: tables
\* specification.gain: { HW gain id, V/div } with V/div in mV
GainSteps ==
    << [gainId |-> 10, voltage |-> 20],   [gainId |-> 10, voltage |-> 50],
       [gainId |-> 10, voltage |-> 100],  [gainId |-> 5,  voltage |-> 200],
       [gainId |-> 2,  voltage |-> 500],  [gainId |-> 1,  voltage |-> 1000],
       [gainId |-> 1,  voltage |-> 2000], [gainId |-> 1,  voltage |-> 5000] >>

\* specification.voltageScale[ ch ], in tenths (21.5 is 215)
VoltageScaleShort(ch) ==
    IF ch = 0 THEN << 12760, 12760, 12760, 900, 370, 215, 215, 215 >>
              ELSE << 12760, 12760, 12760, 900, 370, 215, 215 >>

VoltageScale(ch) ==
    IF ch = 0 THEN << 12760, 12760, 12760, 900, 370, 215, 215, 215 >>
              ELSE << 12760, 12760, 12760, 900, 370, 215, 215, 215 >>

\* the raw sample rates of the firmware, in S/s (comment of initSpecifications)
RawSampleRates ==
    { 20000, 40000, 50000, 64000, 100000, 200000, 400000, 500000,
      1000000, 2000000, 3000000, 4000000, 5000000, 6000000, 8000000,
      10000000, 12000000, 15000000, 16000000, 24000000, 30000000, 48000000 }

\* specification.samplerate.single / .multi (recordLengths = { UINT_MAX } left out)
SamplerateSingle == [base |-> 1000000, max |-> 30000000]
SamplerateMulti == [base |-> 1000000, max |-> 15000000]

\* specification.fixedSampleRates: { samplerate, sampleId, downsampling }
FixedSampleRates ==
    << [samplerate |-> 100000,   id |-> 10, downsampling |-> 1],
       [samplerate |-> 200000,   id |-> 20, downsampling |-> 1],
       [samplerate |-> 500000,   id |-> 50, downsampling |-> 1],
       [samplerate |-> 1000000,  id |-> 1,  downsampling |-> 1],
       [samplerate |-> 2000000,  id |-> 8,  downsampling |-> 4],
       [samplerate |-> 7000000,  id |-> 24, downsampling |-> 3],
       [samplerate |-> 4000000,  id |-> 4,  downsampling |-> 1],
       [samplerate |-> 8000000,  id |-> 8,  downsampling |-> 1],
       [samplerate |-> 16000000, id |-> 16, downsampling |-> 1],
       [samplerate |-> 24000000, id |-> 24, downsampling |-> 1],
       [samplerate |-> 30000000, id |-> 30, downsampling |-> 1],
       [samplerate |-> 48000000, id |-> 48, downsampling |-> 1] >>

\* the raw capture rate a sampleId selects: the rate of the table's entries
\* without downsampling (10, 20, 50 -> 100k, 200k, 500k; else MS/s)
SampleIdRate(id) == IF id \in {10, 20, 50} THEN id * 10000 ELSE id * 1000000

\* Dso::ControlSpecification( 2 ) before initSpecifications has filled it
EmptySpecification ==
    [ channels |-> Channels,
      gain |-> << >>,
      voltageScale |-> [ch \in 0 .. Channels - 1 |-> << >>],
      samplerate |-> [single |-> [base |-> 0, max |-> 0], multi |-> [base |-> 0, max |-> 0]],
      fixedSampleRates |-> << >>,
      calfreqSteps |-> << >>,
      hasACcoupling |-> FALSE,
      hasCalibrationEEPROM |-> FALSE ]

\* initSpecifications( specification )
InitSpecifications(s) ==
    [ s EXCEPT !.gain = GainSteps,
               !.voltageScale = [ch \in 0 .. Channels - 1 |-> VoltageScale(ch)],
               !.samplerate = [single |-> SamplerateSingle, multi |-> SamplerateMulti],
               !.fixedSampleRates = FixedSampleRates,
               !.calfreqSteps = << 100, 1000, 10000, 25000 >>,
               !.hasACcoupling = TRUE,
               !.hasCalibrationEEPROM = FALSE ]

\* applyRequirements_: the commands in the order they are handed to addCommand
ControlCommandsStartLast ==
    << "ControlSetGain_CH1", "ControlSetGain_CH2", "ControlSetSamplerate",
       "ControlSetNumChannels", "ControlSetCoupling", "ControlSetCalFreq",
       "ControlStartSampling" >>

ControlCommands ==
    << "ControlSetGain_CH1", "ControlSetGain_CH2", "ControlSetSamplerate",
       "ControlStartSampling", "ControlSetNumChannels", "ControlSetCoupling",
       "ControlSetCalFreq" >>

\* the command code of each command (0xE0 .. 0xE6)
CommandCode(c) ==
    CASE c = "ControlSetGain_CH1" -> 224
      [] c = "ControlSetGain_CH2" -> 225
      [] c = "ControlSetSamplerate" -> 226
      [] c = "ControlStartSampling" -> 227
      [] c = "ControlSetNumChannels" -> 228
      [] c = "ControlSetCoupling" -> 229
      [] c = "ControlSetCalFreq" -> 230

\* ------------------------------------------------------- main.cpp: pieces
\* postProcessing.registerProcessor( ... ), four calls in this order
RegisteredProcessorsSpectrumFirst ==
    << "samplesToExportRaw", "spectrumGenerator", "mathchannelGenerator", "graphGenerator" >>

RegisteredProcessors ==
    << "samplesToExportRaw", "mathchannelGenerator", "spectrumGenerator", "graphGenerator" >>

\* the signals main() connects to QCoreApplication::quit
QuitConnectedOnlyCommunicationError(sig) == sig = "communicationError"

QuitConnected(sig) == sig \in {"communicationError", "deviceDisconnected"}

\* unsigned( 2000 * getSamplesize() / getSamplerate() ), then qMax( ., 10000U )
WaitForDso(samplesize, samplerate) ==
    Max((2000 * samplesize) \div samplerate, MinWaitForDso)

\* QThread::wait( time ): returns when the thread has finished or the time is up
WaitReturnsOnlyWhenFinished(thread, timedOut) == thread = "finished"

WaitReturns(thread, timedOut) == thread = "finished" \/ timedOut

\* the step of main() after "scopeDevice == nullptr || !connectDevice( .. )"
AfterConnectIgnoringResult(device, connected) ==
    IF device = "nullptr" THEN "return_error" ELSE "create_control"

AfterConnect(device, connected) ==
    IF device = "nullptr" \/ ~connected THEN "return_error" ELSE "create_control"

\* the demo device chosen in the dialog: libusb_exit( context ); context = nullptr
ContextAfterDemoExitDangling == "exited"

ContextAfterDemoExit == "nullptr"

\* the record lengths and sample rates getSamplesize() / getSamplerate() can return
Samplesizes == {20000, 1000000}
Samplerates == {FixedSampleRates[i].samplerate : i \in {1, 12}}

\* ------------------------------------------------------------------ state
VARIABLES
    pc,                     \* the statement main() (or static initialisation) is at
    specification,          \* modelInstance_isds205b.specification
    addedCommands,          \* the commands handed to dsoControl->addCommand, in call order
    demoMode,               \* bool demoMode
    context,                \* libusb_context *context: "nullptr", "initialised", "exited"
    scopeDevice,            \* std::unique_ptr< ScopeDevice >: "nullptr", "real", "demo", "destroyed"
    usbLog,                 \* the libusb calls made so far, in order
    failure,                \* why main() took an early return, or "none"
    retVal,                 \* the value main() returned (when pc = "returned")
    appStatus,              \* int appStatus = openHantekApplication.exec()
    controlsettings,        \* what getSamplesize() / getSamplerate() returned at shutdown
    dsoControlThread,       \* QThread dsoControlThread: "none", "created", "running", "finished"
    capturing,              \* Capturing capturing (a thread)
    postProcessingThread,   \* QThread postProcessingThread
    sampling,               \* dsoControl.enableSampling( .. ) / quitSampling()
    requested,              \* requestInterruption() / quit() calls made on the threads
    processors,             \* postProcessing's registered processors
    processing,             \* postProcessing accepts input until stop()
    ppQueue,                \* samplesAvailable events queued for PostProcessing::input
    ppStage,                \* 0: idle; k: the cycle is about to run processors[k]
    currentData,            \* the stages that have written to this cycle's result
    observed,               \* per stage run in this cycle, what it found in the result
    published,              \* the result carried by the last processingFinished
    counts,                 \* how often each operation of interest has happened
    quitPending,            \* queued calls of QCoreApplication::quit the event loop will deliver
    waitForDso,             \* unsigned waitForDso
    elapsedMs               \* time main() has spent in QThread::wait during shutdown

vars == << pc, specification, addedCommands, demoMode, context, scopeDevice, usbLog,
           failure, retVal, appStatus, controlsettings, dsoControlThread, capturing,
           postProcessingThread, sampling, requested, processors, processing, ppQueue,
           ppStage, currentData, observed, published, counts, quitPending, waitForDso,
           elapsedMs >>

modelVars == << specification, addedCommands >>
usbVars == << context, scopeDevice, usbLog >>
threadVars == << dsoControlThread, capturing, postProcessingThread, requested >>
pipelineVars == << processors, processing, ppQueue, ppStage, currentData, observed, published >>
shutdownVars == << waitForDso, elapsedMs, appStatus >>

Bump(c, what) == [c EXCEPT ![what] = @ + 1]

\* the state when the program is loaded: nothing constructed; demoMode is the
\* command line's -d / --demoMode
Init ==
    /\ pc = "static"
    /\ specification = EmptySpecification
    /\ addedCommands = << >>
    /\ demoMode \in BOOLEAN
    /\ context = "nullptr"
    /\ scopeDevice = "nullptr"
    /\ usbLog = << >>
    /\ failure = "none"
    /\ retVal = 0
    /\ appStatus = 0
    /\ controlsettings = [samplesize |-> 0, samplerate |-> 0]
    /\ dsoControlThread = "none"
    /\ capturing = "none"
    /\ postProcessingThread = "none"
    /\ sampling = FALSE
    /\ requested = [capturing |-> FALSE, dsoControlThread |-> FALSE, postProcessingThread |-> FALSE]
    /\ processors = << >>
    /\ processing = TRUE
    /\ ppQueue = 0
    /\ ppStage = 0
    /\ currentData = << >>
    /\ observed = << >>
    /\ published = << >>
    /\ counts = [connectDevice |-> 0, start |-> 0, shutdown |-> 0, usbControl |-> 0,
                 samplesAvailable |-> 0, communicationError |-> 0, deviceDisconnected |-> 0]
    /\ quitPending = 0
    /\ waitForDso = 0
    /\ elapsedMs = 0

\* --------------------- static initialisation: modelInstance_isds205b
ModelISDS205B ==
    /\ pc = "static"
    /\ specification' = InitSpecifications(specification)
    /\ pc' = "main"
    /\ UNCHANGED << addedCommands, demoMode, usbVars, failure, retVal, controlsettings,
                    threadVars, sampling, pipelineVars, counts, quitPending, shutdownVars >>

\* ------------------------------------------------ main(): find the device
\* libusb_init( &context ) when not in demo mode
LibusbInit ==
    /\ pc = "main"
    /\ ~demoMode
    /\ \E error \in BOOLEAN :
          IF error
          THEN /\ failure' = "libusb_init"
               /\ retVal' = ErrorReturn
               /\ pc' = "returned"
               /\ UNCHANGED << context, usbLog >>
          ELSE /\ context' = "initialised"
               /\ usbLog' = Append(usbLog, "libusb_init")
               /\ pc' = "select"
               /\ UNCHANGED << failure, retVal >>
    /\ UNCHANGED << modelVars, demoMode, scopeDevice, appStatus, controlsettings, threadVars,
                    sampling, pipelineVars, counts, quitPending, waitForDso, elapsedMs >>

\* demo mode from the command line: scopeDevice = new ScopeDevice()
NewDemoDevice ==
    /\ pc = "main"
    /\ demoMode
    /\ scopeDevice' = "demo"
    /\ pc' = "create_control"
    /\ UNCHANGED << modelVars, demoMode, context, usbLog, failure, retVal, controlsettings,
                    threadVars, sampling, pipelineVars, counts, quitPending, shutdownVars >>

\* SelectSupportedDevice().showSelectDeviceModal( .. ) and the demo branch
ShowSelectDeviceModal ==
    /\ pc = "select"
    /\ \E selected \in {"nullptr", "demo", "real"} :
          /\ scopeDevice' = selected
          /\ IF selected = "demo"
             THEN /\ demoMode' = TRUE
                  /\ usbLog' = Append(usbLog, "libusb_exit")
                  /\ context' = ContextAfterDemoExit
                  /\ pc' = "create_control"
             ELSE /\ pc' = "connect"
                  /\ UNCHANGED << demoMode, usbLog, context >>
    /\ UNCHANGED << modelVars, failure, retVal, controlsettings, threadVars, sampling,
                    pipelineVars, counts, quitPending, shutdownVars >>

\* if ( scopeDevice == nullptr || !scopeDevice->connectDevice( errorMessage ) )
\*     libusb_exit( context );
ConnectDevice ==
    /\ pc = "connect"
    /\ \E connected \in BOOLEAN :
          /\ scopeDevice = "nullptr" => ~connected
          /\ counts' = IF scopeDevice = "nullptr" THEN counts ELSE Bump(counts, "connectDevice")
          /\ pc' = AfterConnect(scopeDevice, connected)
          /\ IF scopeDevice = "nullptr" \/ ~connected
             THEN /\ failure' = IF scopeDevice = "nullptr" THEN "no_device" ELSE "connectDevice"
                  /\ IF pc' = "return_error"
                     THEN /\ usbLog' = Append(usbLog, "libusb_exit")
                          /\ context' = "exited"
                     ELSE UNCHANGED << usbLog, context >>
             ELSE /\ usbLog' = Append(usbLog, "libusb_open")
                  /\ UNCHANGED << failure, context >>
    /\ UNCHANGED << modelVars, demoMode, scopeDevice, retVal, controlsettings, threadVars,
                    sampling, pipelineVars, quitPending, shutdownVars >>

\* return -1: the unique_ptr destroys the ScopeDevice on the way out
ReturnError ==
    /\ pc = "return_error"
    /\ retVal' = ErrorReturn
    /\ IF scopeDevice = "real"
       THEN /\ scopeDevice' = "destroyed"
            /\ usbLog' = Append(usbLog, "libusb_close")
       ELSE UNCHANGED << scopeDevice, usbLog >>
    /\ pc' = "returned"
    /\ UNCHANGED << modelVars, demoMode, context, failure, controlsettings, threadVars,
                    sampling, pipelineVars, counts, quitPending, shutdownVars >>

\* ------------------------------------------- main(): construct the objects
\* QThread dsoControlThread; HantekDsoControl dsoControl( scopeDevice.get(), model, .. )
\* and the connections of communicationError / deviceDisconnected to quit
CreateDsoControl ==
    /\ pc = "create_control"
    /\ dsoControlThread' = "created"
    /\ pc' = "apply_requirements"
    /\ UNCHANGED << modelVars, demoMode, usbVars, failure, retVal, controlsettings, capturing,
                    postProcessingThread, requested, sampling, pipelineVars, counts,
                    quitPending, shutdownVars >>

\* ModelISDS205B::applyRequirements( dsoControl ): the connected scope's model
\* hands its commands over (the demo device has another model)
ApplyRequirements ==
    /\ pc = "apply_requirements"
    /\ addedCommands' = IF scopeDevice = "real" THEN addedCommands \o ControlCommands
                                                ELSE addedCommands
    /\ pc' = "create_post"
    /\ UNCHANGED << specification, demoMode, usbVars, failure, retVal, controlsettings,
                    threadVars, sampling, pipelineVars, counts, quitPending, shutdownVars >>

\* QThread postProcessingThread; PostProcessing postProcessing( .. );
\* registerProcessor x 4; moveToThread; connect samplesAvailable / processingFinished
RegisterProcessors ==
    /\ pc = "create_post"
    /\ postProcessingThread' = "created"
    /\ processors' = processors \o RegisteredProcessors
    /\ pc' = "start"
    /\ UNCHANGED << modelVars, demoMode, usbVars, failure, retVal, controlsettings,
                    dsoControlThread, capturing, requested, sampling, processing, ppQueue,
                    ppStage, currentData, observed, published, counts, quitPending,
                    shutdownVars >>

\* dsoControl.enableSampling( true ); postProcessingThread.start();
\* dsoControlThread.start(); Capturing capturing( &dsoControl ); capturing.start()
StartThreads ==
    /\ pc = "start"
    /\ sampling' = TRUE
    /\ postProcessingThread' = "running"
    /\ dsoControlThread' = "running"
    /\ capturing' = "running"
    /\ counts' = Bump(counts, "start")
    /\ pc' = "exec"
    /\ UNCHANGED << modelVars, demoMode, usbVars, failure, retVal, controlsettings,
                    requested, pipelineVars, quitPending, shutdownVars >>

\* ------------------------------------- openHantekApplication.exec() returns
\* a queued QCoreApplication::quit is delivered by the event loop
ExecQuit ==
    /\ pc = "exec"
    /\ quitPending > 0
    /\ quitPending' = 0
    /\ appStatus' = 0
    /\ pc' = "quit_sampling"
    /\ UNCHANGED << modelVars, demoMode, usbVars, failure, retVal, controlsettings,
                    threadVars, sampling, pipelineVars, counts, waitForDso, elapsedMs >>

\* the user closes the main window
ExecWindowClosed ==
    /\ pc = "exec"
    /\ quitPending' = 0
    /\ appStatus' = 0
    /\ pc' = "quit_sampling"
    /\ UNCHANGED << modelVars, demoMode, usbVars, failure, retVal, controlsettings,
                    threadVars, sampling, pipelineVars, counts, waitForDso, elapsedMs >>

\* ------------------------------------------------------ main(): shutdown
\* dsoControl.quitSampling(); waitForDso = ..; capturing.requestInterruption()
QuitSampling ==
    /\ pc = "quit_sampling"
    /\ sampling' = FALSE
    /\ counts' = Bump(Bump(counts, "shutdown"), "usbControl")
    /\ \E samplesize \in Samplesizes, samplerate \in Samplerates :
          /\ controlsettings' = [samplesize |-> samplesize, samplerate |-> samplerate]
          /\ waitForDso' = WaitForDso(samplesize, samplerate)
    /\ requested' = [requested EXCEPT !.capturing = TRUE]
    /\ pc' = "capturing_wait"
    /\ UNCHANGED << modelVars, demoMode, usbVars, failure, retVal, appStatus,
                    dsoControlThread, capturing, postProcessingThread, pipelineVars,
                    quitPending, elapsedMs >>

\* capturing.wait( waitForDso ): the result is not looked at
CapturingWait ==
    /\ pc = "capturing_wait"
    /\ \E timedOut \in BOOLEAN :
          /\ capturing = "finished" => ~timedOut
          /\ WaitReturns(capturing, timedOut)
          /\ elapsedMs' = elapsedMs + (IF timedOut THEN waitForDso ELSE 0)
    /\ pc' = "dso_quit"
    /\ UNCHANGED << modelVars, demoMode, usbVars, failure, retVal, appStatus, controlsettings,
                    threadVars, sampling, pipelineVars, counts, quitPending, waitForDso >>

\* dsoControlThread.quit()
DsoControlThreadQuit ==
    /\ pc = "dso_quit"
    /\ requested' = [requested EXCEPT !.dsoControlThread = TRUE]
    /\ pc' = "dso_wait"
    /\ UNCHANGED << modelVars, demoMode, usbVars, failure, retVal, controlsettings,
                    dsoControlThread, capturing, postProcessingThread, sampling,
                    pipelineVars, counts, quitPending, shutdownVars >>

\* dsoControlThread.wait( waitForDso ): the result is not looked at
DsoControlThreadWait ==
    /\ pc = "dso_wait"
    /\ \E timedOut \in BOOLEAN :
          /\ dsoControlThread = "finished" => ~timedOut
          /\ WaitReturns(dsoControlThread, timedOut)
          /\ elapsedMs' = elapsedMs + (IF timedOut THEN waitForDso ELSE 0)
    /\ pc' = "pp_stop"
    /\ UNCHANGED << modelVars, demoMode, usbVars, failure, retVal, appStatus, controlsettings,
                    threadVars, sampling, pipelineVars, counts, quitPending, waitForDso >>

\* postProcessing.stop(); postProcessingThread.quit()
PostProcessingStop ==
    /\ pc = "pp_stop"
    /\ processing' = FALSE
    /\ requested' = [requested EXCEPT !.postProcessingThread = TRUE]
    /\ pc' = "pp_wait"
    /\ UNCHANGED << modelVars, demoMode, usbVars, failure, retVal, controlsettings,
                    dsoControlThread, capturing, postProcessingThread, sampling, processors,
                    ppQueue, ppStage, currentData, observed, published, counts, quitPending,
                    shutdownVars >>

\* postProcessingThread.wait( 10000 )
PostProcessingThreadWait ==
    /\ pc = "pp_wait"
    /\ \E timedOut \in BOOLEAN :
          /\ postProcessingThread = "finished" => ~timedOut
          /\ WaitReturns(postProcessingThread, timedOut)
          /\ elapsedMs' = elapsedMs + (IF timedOut THEN PostProcessingWait ELSE 0)
    /\ pc' = "reset_device"
    /\ UNCHANGED << modelVars, demoMode, usbVars, failure, retVal, appStatus, controlsettings,
                    threadVars, sampling, pipelineVars, counts, quitPending, waitForDso >>

\* if ( scopeDevice ) scopeDevice.reset(): the destructor closes the USB handle
ScopeDeviceReset ==
    /\ pc = "reset_device"
    /\ IF scopeDevice = "nullptr"
       THEN UNCHANGED << scopeDevice, usbLog >>
       ELSE /\ scopeDevice' = "destroyed"
            /\ usbLog' = IF scopeDevice = "real" THEN Append(usbLog, "libusb_close")
                                                 ELSE usbLog
    /\ pc' = "libusb_exit"
    /\ UNCHANGED << modelVars, demoMode, context, failure, retVal, controlsettings,
                    threadVars, sampling, pipelineVars, counts, quitPending, shutdownVars >>

\* if ( context ) libusb_exit( context )
LibusbExit ==
    /\ pc = "libusb_exit"
    /\ IF context = "nullptr"
       THEN UNCHANGED << context, usbLog >>
       ELSE /\ context' = "exited"
            /\ usbLog' = Append(usbLog, "libusb_exit")
    /\ pc' = "return"
    /\ UNCHANGED << modelVars, demoMode, scopeDevice, failure, retVal, controlsettings,
                    threadVars, sampling, pipelineVars, counts, quitPending, shutdownVars >>

\* return appStatus
Return ==
    /\ pc = "return"
    /\ retVal' = appStatus
    /\ pc' = "returned"
    /\ UNCHANGED << modelVars, demoMode, usbVars, failure, controlsettings, threadVars,
                    sampling, pipelineVars, counts, quitPending, shutdownVars >>

\* ------------------------------------------------------------ the threads
\* where main() is while the event loop of exec() has not returned yet: a
\* quit() that arrives later has no event loop to end
BeforeExecReturns == {"exec"}

\* Capturing::run ends once interruption has been requested
CapturingFinished ==
    /\ capturing = "running"
    /\ requested.capturing
    /\ capturing' = "finished"
    /\ UNCHANGED << pc, modelVars, demoMode, usbVars, failure, retVal, controlsettings,
                    dsoControlThread, postProcessingThread, requested, sampling,
                    pipelineVars, counts, quitPending, shutdownVars >>

\* the event loop of dsoControlThread ends once quit() has been called
DsoControlThreadFinished ==
    /\ dsoControlThread = "running"
    /\ requested.dsoControlThread
    /\ dsoControlThread' = "finished"
    /\ UNCHANGED << pc, modelVars, demoMode, usbVars, failure, retVal, controlsettings,
                    capturing, postProcessingThread, requested, sampling, pipelineVars,
                    counts, quitPending, shutdownVars >>

\* the event loop of postProcessingThread ends, between two events, after quit()
PostProcessingThreadFinished ==
    /\ postProcessingThread = "running"
    /\ requested.postProcessingThread
    /\ ppStage = 0
    /\ postProcessingThread' = "finished"
    /\ UNCHANGED << pc, modelVars, demoMode, usbVars, failure, retVal, controlsettings,
                    dsoControlThread, capturing, requested, sampling, pipelineVars, counts,
                    quitPending, shutdownVars >>

\* HantekDsoControl::samplesAvailable, queued to PostProcessing::input; no
\* frame is delivered once sampling has been stopped
SamplesAvailable ==
    /\ dsoControlThread = "running"
    /\ sampling
    /\ counts.samplesAvailable < MaxCycles
    /\ counts' = Bump(counts, "samplesAvailable")
    /\ ppQueue' = ppQueue + 1
    /\ UNCHANGED << pc, modelVars, demoMode, usbVars, failure, retVal, controlsettings,
                    threadVars, sampling, processors, processing, ppStage, currentData,
                    observed, published, quitPending, shutdownVars >>

\* PostProcessing::input starts a processing cycle on a fresh result
PostProcessingInput ==
    /\ postProcessingThread = "running"
    /\ ~requested.postProcessingThread
    /\ processing
    /\ ppQueue > 0
    /\ ppStage = 0
    /\ ppQueue' = ppQueue - 1
    /\ ppStage' = 1
    /\ currentData' = << >>
    /\ observed' = << >>
    /\ UNCHANGED << pc, modelVars, demoMode, usbVars, failure, retVal, controlsettings,
                    threadVars, sampling, processors, processing, published, counts,
                    quitPending, shutdownVars >>

\* the cycle runs the next registered processor on the result
ProcessStage ==
    /\ postProcessingThread = "running"
    /\ ppStage \in 1 .. Len(processors)
    /\ observed' = Append(observed, [stage |-> processors[ppStage], saw |-> currentData])
    /\ currentData' = Append(currentData, processors[ppStage])
    /\ ppStage' = ppStage + 1
    /\ UNCHANGED << pc, modelVars, demoMode, usbVars, failure, retVal, controlsettings,
                    threadVars, sampling, processors, processing, ppQueue, published,
                    counts, quitPending, shutdownVars >>

\* after the last processor: emit processingFinished( result )
ProcessingFinished ==
    /\ postProcessingThread = "running"
    /\ ppStage = Len(processors) + 1
    /\ published' = currentData
    /\ ppStage' = 0
    /\ UNCHANGED << pc, modelVars, demoMode, usbVars, failure, retVal, controlsettings,
                    threadVars, sampling, processors, processing, ppQueue, currentData,
                    observed, counts, quitPending, shutdownVars >>

\* HantekDsoControl::communicationError, connected to QCoreApplication::quit
CommunicationError ==
    /\ dsoControlThread = "running"
    /\ counts.communicationError < MaxEmit
    /\ counts' = Bump(counts, "communicationError")
    /\ quitPending' = IF QuitConnected("communicationError") /\ pc \in BeforeExecReturns
                       THEN quitPending + 1 ELSE quitPending
    /\ UNCHANGED << pc, modelVars, demoMode, usbVars, failure, retVal, controlsettings,
                    threadVars, sampling, pipelineVars, shutdownVars >>

\* ScopeDevice::deviceDisconnected, connected to QCoreApplication::quit
DeviceDisconnected ==
    /\ scopeDevice = "real"
    /\ dsoControlThread = "running" \/ capturing = "running"
    /\ counts.deviceDisconnected < MaxEmit
    /\ counts' = Bump(counts, "deviceDisconnected")
    /\ quitPending' = IF QuitConnected("deviceDisconnected") /\ pc \in BeforeExecReturns
                       THEN quitPending + 1 ELSE quitPending
    /\ UNCHANGED << pc, modelVars, demoMode, usbVars, failure, retVal, controlsettings,
                    threadVars, sampling, pipelineVars, shutdownVars >>

\* ------------------------------------------------------ the specifications
\* the steps of the main thread that need nothing from the user
MainStep ==
    \/ ModelISDS205B
    \/ LibusbInit
    \/ NewDemoDevice
    \/ ShowSelectDeviceModal
    \/ ConnectDevice
    \/ ReturnError
    \/ CreateDsoControl
    \/ ApplyRequirements
    \/ RegisterProcessors
    \/ StartThreads
    \/ ExecQuit
    \/ QuitSampling
    \/ CapturingWait
    \/ DsoControlThreadQuit
    \/ DsoControlThreadWait
    \/ PostProcessingStop
    \/ PostProcessingThreadWait
    \/ ScopeDeviceReset
    \/ LibusbExit
    \/ Return

Next ==
    \/ ModelISDS205B
    \/ LibusbInit
    \/ NewDemoDevice
    \/ ShowSelectDeviceModal
    \/ ConnectDevice
    \/ ReturnError
    \/ CreateDsoControl
    \/ ApplyRequirements
    \/ RegisterProcessors
    \/ StartThreads
    \/ ExecQuit
    \/ ExecWindowClosed
    \/ QuitSampling
    \/ CapturingWait
    \/ DsoControlThreadQuit
    \/ DsoControlThreadWait
    \/ PostProcessingStop
    \/ PostProcessingThreadWait
    \/ ScopeDeviceReset
    \/ LibusbExit
    \/ Return
    \/ CapturingFinished
    \/ DsoControlThreadFinished
    \/ PostProcessingThreadFinished
    \/ SamplesAvailable
    \/ PostProcessingInput
    \/ ProcessStage
    \/ ProcessingFinished
    \/ CommunicationError
    \/ DeviceDisconnected

Spec == Init /\ [][Next]_vars

\* the main thread keeps running: whichever statement it is at is executed.
\* Nothing is assumed of the user or of the three other threads.
FairSpec == Spec /\ WF_vars(MainStep)

\* ----------------------------------------------------------------- claims
Pos(seq, x) == CHOOSE i \in 1 .. Len(seq) : seq[i] = x

ShutdownPcs ==
    { "capturing_wait", "dso_quit", "dso_wait", "pp_stop", "pp_wait", "reset_device",
      "libusb_exit", "return" }

\* C1: when postProcessing.stop() has just been called (main() is at the wait
\* on the post-processing thread), the capturing thread and the DSO control
\* thread have both finished, also when their waits ended by timeout.
C1_PipelineStoppedAfterAcquisition ==
    pc = "pp_wait" => capturing = "finished" /\ dsoControlThread = "finished"

\* C2: the fixed-sample-rate list built by initSpecifications is sorted
\* ascending: each entry's rate is at most the rate of the entry after it.
C2_FixedSampleRatesSorted ==
    \A i \in 1 .. Len(specification.fixedSampleRates) - 1 :
        specification.fixedSampleRates[i].samplerate
            <= specification.fixedSampleRates[i + 1].samplerate

\* C3: for every fixed-sample-rate entry, samplerate / downsampling is an
\* integer that is one of the firmware's raw sample rates, and the
\* downsampling factor evenly divides the raw rate its sampleId selects.
C3_RawRateInDomain ==
    \A i \in 1 .. Len(specification.fixedSampleRates) :
        LET e == specification.fixedSampleRates[i]
        IN  /\ e.samplerate % e.downsampling = 0
            /\ (e.samplerate \div e.downsampling) \in RawSampleRates
            /\ SampleIdRate(e.id) % e.downsampling = 0

\* C4: once the model is constructed, for each of its 2 channels the
\* voltage-scale table has exactly as many entries as the gain table (8), and
\* the gain table's volts-per-division values ascend.
C4_GainAndVoltageScale ==
    pc # "static" =>
        /\ specification.channels = 2
        /\ Len(specification.gain) = 8
        /\ \A ch \in 0 .. specification.channels - 1 :
              Len(specification.voltageScale[ch]) = Len(specification.gain)
        /\ \A i \in 1 .. Len(specification.gain) - 1 :
              specification.gain[i].voltage < specification.gain[i + 1].voltage

C4_Witness ==
    /\ pc = "main"
    /\ Len(specification.gain) = 8
    /\ Len(specification.voltageScale[1]) = 8
    /\ specification.gain[8].voltage = 5000

\* C5 as stated: in the order applyRequirements_ hands the commands over, gain
\* comes before sample rate before channel count before coupling before
\* calibration frequency, and StartSampling after every configuration command.
C5_StartSamplingLast ==
    addedCommands # << >> =>
        /\ Pos(addedCommands, "ControlSetGain_CH1") < Pos(addedCommands, "ControlSetSamplerate")
        /\ Pos(addedCommands, "ControlSetGain_CH2") < Pos(addedCommands, "ControlSetSamplerate")
        /\ Pos(addedCommands, "ControlSetSamplerate") < Pos(addedCommands, "ControlSetNumChannels")
        /\ Pos(addedCommands, "ControlSetNumChannels") < Pos(addedCommands, "ControlSetCoupling")
        /\ Pos(addedCommands, "ControlSetCoupling") < Pos(addedCommands, "ControlSetCalFreq")
        /\ \A i \in 1 .. Len(addedCommands) :
              i <= Pos(addedCommands, "ControlStartSampling")

\* C5 amended: the seven commands are handed over once, in ascending command
\* code 0xE0 .. 0xE6: gain (CH1, CH2), sample rate, StartSampling, channel
\* count, coupling, calibration frequency. StartSampling is the fourth: after
\* gain and sample rate, before channel count, coupling and calibration frequency.
C5_CommandOrder ==
    addedCommands # << >> =>
        /\ Len(addedCommands) = 7
        /\ \A i \in 1 .. Len(addedCommands) : CommandCode(addedCommands[i]) = 223 + i
        /\ Pos(addedCommands, "ControlSetGain_CH1") < Pos(addedCommands, "ControlSetSamplerate")
        /\ Pos(addedCommands, "ControlSetGain_CH2") < Pos(addedCommands, "ControlSetSamplerate")
        /\ Pos(addedCommands, "ControlSetSamplerate") < Pos(addedCommands, "ControlStartSampling")
        /\ Pos(addedCommands, "ControlStartSampling") < Pos(addedCommands, "ControlSetNumChannels")
        /\ Pos(addedCommands, "ControlSetNumChannels") < Pos(addedCommands, "ControlSetCoupling")
        /\ Pos(addedCommands, "ControlSetCoupling") < Pos(addedCommands, "ControlSetCalFreq")

C5_Witness ==
    /\ pc = "create_post"
    /\ scopeDevice = "real"
    /\ Len(addedCommands) = 7
    /\ addedCommands[4] = "ControlStartSampling"

\* C6: the stages are registered once, in the order raw-export tap, math
\* channel, spectrum, graph; in every cycle the k-th stage to run is the k-th
\* registered one and finds in the result exactly the output of the stages
\* before it; processingFinished carries the result of all four, graph last.
C6_StageOrder ==
    LET order == << "samplesToExportRaw", "mathchannelGenerator", "spectrumGenerator",
                    "graphGenerator" >>
    IN  /\ processors \in {<< >>, order}
        /\ Len(observed) <= Len(order)
        /\ \A k \in 1 .. Len(observed) :
              /\ observed[k].stage = order[k]
              /\ observed[k].saw = SubSeq(order, 1, k - 1)
        /\ published \in {<< >>, order}
        /\ ppStage = 0 /\ observed # << >> => published = order /\ Len(observed) = 4

C6_Witness ==
    /\ published # << >>
    /\ ppStage = 4
    /\ Len(observed) = 3
    /\ observed[3].stage = "spectrumGenerator"

\* C7: once the main loop has returned, main() reaches its return with the
\* ScopeDevice destroyed and the libusb context no longer initialised, whatever
\* the three threads do; waitForDso is at least 10000 ms and at least twice the
\* record duration, and the waits take at most 2 * waitForDso + 10000 ms.
C7_ShutdownTerminates ==
    /\ [](pc \in ShutdownPcs \cup {"returned"} /\ counts.shutdown = 1 =>
            /\ waitForDso >= 10000
            /\ waitForDso >= (2000 * controlsettings.samplesize) \div controlsettings.samplerate
            /\ waitForDso \in {10000, (2000 * controlsettings.samplesize)
                                          \div controlsettings.samplerate}
            /\ elapsedMs <= 2 * waitForDso + 10000)
    /\ (pc = "quit_sampling") ~>
            (pc = "returned" /\ scopeDevice = "destroyed" /\ context # "initialised")

C7_Witness ==
    /\ pc = "returned"
    /\ capturing = "running"
    /\ dsoControlThread = "running"
    /\ postProcessingThread = "running"
    /\ context = "exited"
    /\ scopeDevice = "destroyed"
    /\ waitForDso = 20000
    /\ elapsedMs = 50000

Failed == counts.communicationError + counts.deviceDisconnected > 0

\* C8: after communicationError or deviceDisconnected has been emitted, main()
\* leaves the main loop and runs the shutdown sequence; the shutdown sequence
\* runs at most once; connectDevice and the start of the threads happen at most
\* once and never after a failure.
C8_FailureShutsDownOnce ==
    /\ [](counts.shutdown <= 1 /\ counts.connectDevice <= 1 /\ counts.start <= 1)
    /\ [][Failed => /\ counts'.connectDevice = counts.connectDevice
                    /\ counts'.start = counts.start]_vars
    /\ Failed ~> (counts.shutdown = 1)

C8_Witness ==
    /\ counts.communicationError >= 1
    /\ counts.deviceDisconnected >= 1
    /\ counts.shutdown = 1
    /\ pc = "returned"

\* C9: when libusb_init fails, no device is selected or connectDevice fails,
\* main() goes straight to return -1: demo mode is off, connectDevice ran at
\* most once, no thread exists or was started, no command was handed over or
\* sent, and the libusb context, if it was initialised, has been exited once.
C9_ConnectionErrorFatal ==
    failure # "none" =>
        /\ ~demoMode
        /\ pc \in {"return_error", "returned"}
        /\ pc = "returned" => retVal = -1
        /\ counts.connectDevice <= 1
        /\ failure = "no_device" => counts.connectDevice = 0
        /\ dsoControlThread = "none" /\ capturing = "none" /\ postProcessingThread = "none"
        /\ counts.start = 0 /\ counts.usbControl = 0 /\ counts.shutdown = 0
        /\ addedCommands = << >>
        /\ ~sampling
        /\ IF failure = "libusb_init"
           THEN context = "nullptr" /\ usbLog = << >>
           ELSE /\ context = "exited"
                /\ Cardinality({i \in 1 .. Len(usbLog) : usbLog[i] = "libusb_exit"}) = 1

C9_Witness ==
    /\ pc = "returned"
    /\ failure = "connectDevice"
    /\ retVal = -1
    /\ counts.connectDevice = 1
    /\ context = "exited"

\* C10: whenever the libusb context has been exited, no connected-or-selected
\* real ScopeDevice is still alive: it was destroyed before libusb_exit.
C10_DeviceDestroyedBeforeExit ==
    context = "exited" => scopeDevice # "real"

\* the fixed-sample-rate entries selectable in a mode: those whose rate does
\* not exceed the mode's maximum rate
Selectable(s, mode) ==
    { s.fixedSampleRates[i] : i \in { j \in 1 .. Len(s.fixedSampleRates) :
                                        s.fixedSampleRates[j].samplerate <= mode.max } }

\* C11: no 48 MS/s entry is selectable in single-channel mode, no 24, 30 or
\* 48 MS/s entry is selectable in two-channel mode, and the raw capture rate
\* selected by the sampleId of every selectable entry does not exceed the
\* maximum rate of the mode.
C11_UnstableRatesDisabled ==
    LET single == specification.samplerate.single
        multi == specification.samplerate.multi
    IN  /\ \A e \in Selectable(specification, single) : e.samplerate # 48000000
        /\ \A e \in Selectable(specification, multi) :
              e.samplerate \notin {24000000, 30000000, 48000000}
        /\ \A e \in Selectable(specification, single) : SampleIdRate(e.id) <= single.max
        /\ \A e \in Selectable(specification, multi) : SampleIdRate(e.id) <= multi.max

Count(log, call) == Cardinality({i \in 1 .. Len(log) : log[i] = call})

\* C12: libusb_init succeeds at most once and libusb_exit is never called more
\* often than that; when main() has returned it was called exactly once for an
\* initialised context and not at all otherwise (demo mode from the command
\* line, libusb_init failed); after the demo device was chosen in the dialog
\* the context has been exited once and is null, also after the shutdown.
C12_LibusbExitOnce ==
    LET inits == Count(usbLog, "libusb_init")
        exits == Count(usbLog, "libusb_exit")
    IN  /\ inits <= 1
        /\ exits <= inits
        /\ pc = "returned" => exits = inits
        /\ context = "initialised" => inits = 1 /\ exits = 0
        /\ context = "exited" => exits = 1
        /\ failure = "libusb_init" => inits = 0 /\ exits = 0 /\ context = "nullptr"
        /\ demoMode /\ inits = 0 => exits = 0 /\ context = "nullptr"
        /\ demoMode /\ inits = 1 => exits = 1 /\ context = "nullptr"

C12_Witness ==
    /\ pc = "returned"
    /\ demoMode
    /\ scopeDevice = "destroyed"
    /\ usbLog = << "libusb_init", "libusb_exit" >>
    /\ context = "nullptr"

====
